---- MODULE Spec2Model ----
(***************************************************************************)
(* Type-erased dispatch of Library::Person sub-classes (src/src/main.cpp): *)
(* AnyPerson owns a heap-allocated PersonHolder<P, Args...> through a      *)
(* std::unique_ptr; AnyPerson::work wraps its arguments into a             *)
(* std::vector<std::any> and PersonHolder::invoke_work any_casts them back *)
(* to the parameter types of P::do_work.  Library::Office holds one        *)
(* AnyPerson and prints the person's name before dispatching.              *)
(***************************************************************************)
EXTENDS Integers, Sequences, FiniteSets, TLC

\* ------------------------------------------------------------------ bounds
\* Named Person objects the caller keeps in its own scope (lvalues).
MaxPersons == 1
\* AnyPerson objects (stand-alone or the m_person member of an Office)
\* constructed over one run.
MaxAnyPersons == 2
\* Arguments a caller may pass beyond the largest do_work arity.
MaxSurplus == 1

\* ------------------------------------------------------ types and values
NULL == 0

\* The workers main() builds: Cook{"Alice"} and Programmer{"Peter"}.
Worker(kind, name) == [kind |-> kind, name |-> name]
Workers == { Worker("Cook", "Alice"), Worker("Programmer", "Peter") }
PersonKinds == { w.kind : w \in Workers }
PersonNames == { w.name : w \in Workers }
\* What a read through a dangling reference may yield besides a former name.
GarbageName == "<garbage>"

\* A C++ type as written in a signature: the decayed type and its cv/ref part.
T(base, cvref) == [base |-> base, cvref |-> cvref]

\* std::decay_t / std::remove_cvref_t: both strip the cv/ref part for the
\* class types used here (no arrays, no functions).
Decay(t) == T(t.base, "")
RemoveCvref(t) == T(t.base, "")

\* The parameter list of P::do_work, deduced by make_holder as Args... .
DoWorkSignature(kind) ==
  IF kind = "Cook"
    THEN << T("Recipe", ""), T("IngredientVector", "const&") >>
    ELSE << T("Monitor", ""), T("Keyboard", ""), T("Cup", "") >>

MaxArity == Len(DoWorkSignature("Programmer"))

\* Argument expressions a caller can write: the static type of the expression
\* and the value it denotes.  A value is the sequence of names it reports
\* (Recipe{}.name(), ..., or the names of a vector's Ingredients).
Arg(base, cvref, val) == [type |-> T(base, cvref), val |-> val]

ArgExprs ==
  { Arg("Recipe", "", <<"recipe">>),
    Arg("Monitor", "", <<"monitor">>),
    Arg("Keyboard", "", <<"keyboard">>),
    Arg("Cup", "", <<"coffee">>),
    Arg("IngredientVector", "", <<"flour", "eggs", "milk">>),
    Arg("IngredientVector", "const&", <<"stuff">>) }

\* What an out-of-range read of the argument vector may be taken for.
GarbageValue == <<"<garbage>">>

RECURSIVE SeqsUpTo(_, _)
SeqsUpTo(S, n) ==
  IF n = 0 THEN { <<>> }
  ELSE LET shorter == SeqsUpTo(S, n - 1)
       IN shorter \cup { Append(s, x) : s \in { t \in shorter : Len(t) = n - 1 }, x \in S }

\* Whether the argument expressions args match the parameters sig one by one.
Matches(sig, args) ==
  /\ Len(args) = Len(sig)
  /\ \A i \in 1..Len(sig) : Decay(args[i].type) = RemoveCvref(sig[i])

\* The argument lists that fit some worker's do_work.
FittingArgLists ==
  { args \in SeqsUpTo(ArgExprs, MaxArity) :
      \E k \in PersonKinds : Matches(DoWorkSignature(k), args) }

\* The argument lists of the two calls main() makes.
MainCook ==
  << Arg("Recipe", "", <<"recipe">>), Arg("IngredientVector", "", <<"flour", "eggs", "milk">>) >>
MainProgrammer ==
  << Arg("Monitor", "", <<"monitor">>), Arg("Keyboard", "", <<"keyboard">>),
     Arg("Cup", "", <<"coffee">>) >>

\* A const lvalue vector, as a caller that keeps its ingredients passes it.
Stuff == Arg("IngredientVector", "const&", <<"stuff">>)

\* The argument lists callers pass: a fitting list, or one of main()'s with
\* trailing arguments left out, with its last argument repeated up to
\* MaxSurplus times, with two arguments swapped, or with one argument
\* replaced by the vector.
ArgLists ==
  FittingArgLists
    \cup UNION { { SubSeq(b, 1, n) : n \in 0..(Len(b) - 1) }
                 \cup { b \o [i \in 1..n |-> b[Len(b)]] : n \in 1..MaxSurplus }
                 \cup { [b EXCEPT ![i] = b[j], ![j] = b[i]] : i, j \in 1..Len(b) }
                 \cup { [b EXCEPT ![i] = Stuff] : i \in 1..Len(b) }
               : b \in { MainCook, MainProgrammer } }

\* ------------------------------------------------------------- std::any
\* std::any constructed from an argument holds a value of the decayed type.
MakeAny(arg) == [type |-> Decay(arg.type), val |-> arg.val]

\* std::any_cast<To>(any&) throws std::bad_any_cast unless the held type is
\* exactly remove_cvref_t<To>.
AnyCastConvertible(To, any) == TRUE
AnyCastOk(To, any) == any.type = RemoveCvref(To)
AnyCast(To, any) == any.val

\* detail::collect_any_vector: the fold pushes the arguments back in order.
CollectReversed(args) == [i \in 1..Len(args) |-> MakeAny(args[Len(args) + 1 - i])]
collect_any_vector(args) == [i \in 1..Len(args) |-> MakeAny(args[i])]

\* ------------------------------------------------------------ do_work
NumStr(n) == ToString(n)

RECURSIVE JoinNames(_, _)
\* The loop of Cook::do_work: ", " before every name but the first.
JoinNames(names, first) ==
  IF names = <<>> THEN <<>>
  ELSE (IF first THEN <<>> ELSE <<", ">>) \o <<Head(names)>> \o JoinNames(Tail(names), FALSE)

\* A name() of an argument struct: the (single) name the value carries.
NameOf(val) == IF val = <<>> THEN "" ELSE val[1]

CookDoWork(recipe, ingredients) ==
  << NameOf(recipe), " with ", NumStr(Len(ingredients)), " ingredients: " >>
    \o JoinNames(ingredients, TRUE) \o << "\n" >>

ProgrammerDoWork(monitor, keyboard, coffee) ==
  << NameOf(keyboard), ", ", NameOf(monitor), ", and ", NameOf(coffee), "\n" >>

\* P::do_work called with the values vals, bound positionally.
DoWork(kind, vals) ==
  IF kind = "Cook" THEN CookDoWork(vals[1], vals[2])
  ELSE ProgrammerDoWork(vals[1], vals[2], vals[3])

\* ------------------------------------------------------------------ state
VARIABLES
  ndebug,     \* the build defines NDEBUG: assert() expands to nothing
  persons,    \* the caller's named Person objects
  anyPerson,  \* the AnyPerson objects and their m_personHolder pointers
  heap,       \* the PersonHolder objects allocated by make_holder
  last        \* the most recent name()/work() call and what it produced

vars == << ndebug, persons, anyPerson, heap, last >>

PersonIds == 1..MaxPersons
AnyPersonIds == 1..MaxAnyPersons
\* A PersonHolder is allocated by the constructor of an AnyPerson and is
\* identified by the AnyPerson that allocated it.
HolderIds == AnyPersonIds

NoPerson == [state |-> "none", kind |-> "", name |-> ""]
\* A destroyed Person: its storage no longer holds a name.
DeadPerson == [state |-> "dead", kind |-> "", name |-> ""]
DestroyedAnyPerson == [state |-> "destroyed", m_personHolder |-> NULL, inOffice |-> FALSE]
NoAnyPerson == [state |-> "none", m_personHolder |-> NULL, inOffice |-> FALSE]
FreeHolder ==
  [state |-> "free", P |-> "", Args |-> <<>>, isRef |-> FALSE, target |-> NULL,
   m_person |-> "", ctorName |-> "", deletes |-> 0]
NoCall ==
  [op |-> "none", a |-> NULL, args |-> <<>>, result |-> "", ret |-> "",
   out |-> <<>>, invoked |-> <<>>, retry |-> FALSE]

\* The caller is between two statements: no call result is pending.
Idle == last.op = "none"

Init ==
  /\ ndebug \in BOOLEAN
  /\ persons = [p \in PersonIds |-> NoPerson]
  /\ anyPerson = [a \in AnyPersonIds |-> NoAnyPerson]
  /\ heap = [h \in HolderIds |-> FreeHolder]
  /\ last = NoCall

\* ----------------------------------------------------- Library::Person
\* The caller's named worker objects: a Cook "Alice" is declared first, a
\* Programmer "Peter" next, and so on in turn.
NamedWorker(p) == IF p % 2 = 1 THEN Worker("Cook", "Alice") ELSE Worker("Programmer", "Peter")

\* A named worker object comes into scope: Person(std::string name).
DeclarePerson(p) ==
  /\ Idle
  /\ persons[p].state = "none"
  /\ \A q \in PersonIds : q < p => persons[q].state # "none"
  /\ persons' = [persons EXCEPT ![p] = [state |-> "alive", kind |-> NamedWorker(p).kind,
                                        name |-> NamedWorker(p).name]]
  /\ last' = NoCall
  /\ UNCHANGED << ndebug, anyPerson, heap >>

\* The named worker object leaves scope: ~Person().
DestroyPerson(p) ==
  /\ Idle
  /\ persons[p].state = "alive"
  /\ persons' = [persons EXCEPT ![p] = DeadPerson]
  /\ last' = NoCall
  /\ UNCHANGED << ndebug, anyPerson, heap >>

\* ------------------------------------------------------------ make_holder
\* make_holder for an rvalue worker: P deduces to the class itself, so
\* PersonHolder<P, Args...>::m_person is an object built from the argument.
HolderOfRvalue(kind, name) ==
  [state |-> "live", P |-> kind, Args |-> DoWorkSignature(kind), isRef |-> FALSE,
   target |-> NULL, m_person |-> name, ctorName |-> name, deletes |-> 0]

\* make_holder for an lvalue worker: P deduces to an lvalue reference, so
\* PersonHolder<P&, Args...>::m_person is a reference bound to the caller's
\* object.
HolderOfLvalue(p) ==
  [state |-> "live", P |-> persons[p].kind, Args |-> DoWorkSignature(persons[p].kind),
   isRef |-> TRUE, target |-> p, m_person |-> "", ctorName |-> persons[p].name,
   deletes |-> 0]

\* ------------------------------------------------------------- AnyPerson
Live(a) == anyPerson[a].state = "live"
HolderOf(a) == anyPerson[a].m_personHolder
Holds(a) == Live(a) /\ HolderOf(a) # NULL

\* Whether the worker a holder's m_person denotes is within its lifetime.
HeldAlive(h) ==
  IF heap[h].isRef THEN persons[heap[h].target].state = "alive" ELSE heap[h].state = "live"

\* The next AnyPerson to be constructed: objects are numbered in the order of
\* their construction.
FreeSlot(a) ==
  /\ anyPerson[a].state = "none"
  /\ \A b \in AnyPersonIds : b < a => anyPerson[b].state # "none"

\* std::make_unique<PersonHolder<P, Args...>> in the constructor of a.
NewHolderId(a) == a

\* AnyPerson(P&& person) with an rvalue worker.
ConstructFromRvalue(a, kind, name) ==
  /\ Idle
  /\ FreeSlot(a)
  /\ heap' = [heap EXCEPT ![NewHolderId(a)] = HolderOfRvalue(kind, name)]
  /\ anyPerson' = [anyPerson EXCEPT ![a] =
                     [state |-> "live", m_personHolder |-> NewHolderId(a), inOffice |-> FALSE]]
  /\ last' = NoCall
  /\ UNCHANGED << ndebug, persons >>

\* AnyPerson(P&& person) with a named (lvalue) worker.
ConstructFromLvalue(a, p) ==
  /\ Idle
  /\ FreeSlot(a)
  /\ persons[p].state = "alive"
  /\ heap' = [heap EXCEPT ![NewHolderId(a)] = HolderOfLvalue(p)]
  /\ anyPerson' = [anyPerson EXCEPT ![a] =
                     [state |-> "live", m_personHolder |-> NewHolderId(a), inOffice |-> FALSE]]
  /\ last' = NoCall
  /\ UNCHANGED << ndebug, persons >>

\* The implicit move constructor: the unique_ptr is taken over, the source
\* is left holding nullptr.
MovedFrom(src) == [src EXCEPT !.m_personHolder = NULL]

MoveConstruct(dst, src) ==
  /\ Idle
  /\ dst # src
  /\ FreeSlot(dst)
  /\ Live(src)
  /\ anyPerson' = [anyPerson EXCEPT
                     ![dst] = [state |-> "live", m_personHolder |-> HolderOf(src),
                               inOffice |-> FALSE],
                     ![src] = MovedFrom(anyPerson[src])]
  /\ last' = NoCall
  /\ UNCHANGED << ndebug, persons, heap >>

\* Office(AnyPerson person) : m_person(std::move(person)), called with
\* std::move(src): the parameter is move-constructed from src, the member
\* from the parameter, and the emptied parameter is destroyed on return.
Office(dst, src) ==
  /\ Idle
  /\ dst # src
  /\ FreeSlot(dst)
  /\ Live(src)
  /\ ~anyPerson[src].inOffice
  /\ anyPerson' = [anyPerson EXCEPT
                     ![dst] = [state |-> "live", m_personHolder |-> HolderOf(src),
                               inOffice |-> TRUE],
                     ![src] = MovedFrom(anyPerson[src])]
  /\ last' = NoCall
  /\ UNCHANGED << ndebug, persons, heap >>

\* Office{Cook{"Alice"}}: the parameter is converted from an rvalue worker.
OfficeFromRvalue(dst, kind, name) ==
  /\ Idle
  /\ FreeSlot(dst)
  /\ heap' = [heap EXCEPT ![NewHolderId(dst)] = HolderOfRvalue(kind, name)]
  /\ anyPerson' = [anyPerson EXCEPT ![dst] =
                     [state |-> "live", m_personHolder |-> NewHolderId(dst), inOffice |-> TRUE]]
  /\ last' = NoCall
  /\ UNCHANGED << ndebug, persons >>

\* Office{cook}: the parameter is converted from a named worker.
OfficeFromLvalue(dst, p) ==
  /\ Idle
  /\ FreeSlot(dst)
  /\ persons[p].state = "alive"
  /\ heap' = [heap EXCEPT ![NewHolderId(dst)] = HolderOfLvalue(p)]
  /\ anyPerson' = [anyPerson EXCEPT ![dst] =
                     [state |-> "live", m_personHolder |-> NewHolderId(dst), inOffice |-> TRUE]]
  /\ last' = NoCall
  /\ UNCHANGED << ndebug, persons >>

\* ~unique_ptr: a non-null pointer deletes its PersonHolder (and with it an
\* m_person that is an object, not a reference).
Deleted(holder) == [FreeHolder EXCEPT !.state = "deleted", !.deletes = holder.deletes + 1]

\* ~AnyPerson (and ~Office, which destroys its m_person).
DestroyAnyPerson(a) ==
  /\ Idle
  /\ Live(a)
  /\ anyPerson' = [anyPerson EXCEPT ![a] = DestroyedAnyPerson]
  /\ heap' = IF HolderOf(a) = NULL THEN heap
             ELSE [heap EXCEPT ![HolderOf(a)] = Deleted(heap[HolderOf(a)])]
  /\ last' = NoCall
  /\ UNCHANGED << ndebug, persons >>

\* --------------------------------------------------------- name()
\* An outcome of a call: how it ended ("ok", "bad_any_cast" thrown to the
\* caller, "abort" by a failed assert, or "crash"), what name() returned,
\* what was written to std::cout, the argument values of every do_work call
\* made, and the holder as the call leaves it.
Outcome(result, ret, out, invoked, holder) ==
  [result |-> result, ret |-> ret, out |-> out, invoked |-> invoked, holder |-> holder]

\* PersonHolder::name(): m_person.name().  Through a reference to a worker
\* whose lifetime has ended the read is undefined: any string, or a crash.
PersonHolderName(holder) ==
  IF ~holder.isRef
    THEN { Outcome("ok", holder.m_person, <<>>, <<>>, holder) }
  ELSE IF persons[holder.target].state = "alive"
    THEN { Outcome("ok", persons[holder.target].name, <<>>, <<>>, holder) }
  ELSE { Outcome("ok", n, <<>>, <<>>, holder) : n \in PersonNames \cup {GarbageName} }
         \cup { Outcome("crash", "", <<>>, <<>>, holder) }

\* --------------------------------------------------------- invoke_work
WorkingOn == "working on "

\* m_person.do_work(vals...): on a live worker the call runs; through a
\* reference to a dead one it is undefined (it may run as usual, or crash).
CallDoWork(holder, vals) ==
  IF (~holder.isRef) \/ persons[holder.target].state = "alive"
    THEN { Outcome("ok", "", DoWork(holder.P, vals), <<vals>>, holder) }
  ELSE { Outcome("ok", "", DoWork(holder.P, vals), <<vals>>, holder),
         Outcome("crash", "", <<>>, <<>>, holder) }

\* invoke_work_impl: any_cast<Args>(arguments[Is])... are all evaluated (in
\* an unspecified order) before do_work is entered, so one failing cast
\* throws before the call.  arguments[Is] beyond the vector's size is an
\* out-of-range operator[]: undefined.
invoke_work_impl(holder, arguments) ==
  LET arity == Len(holder.Args)
  IN IF Len(arguments) < arity
       THEN { Outcome("crash", "", <<>>, <<>>, holder),
              Outcome("bad_any_cast", "", <<>>, <<>>, holder) }
            \cup CallDoWork(holder,
                   [i \in 1..arity |-> IF i <= Len(arguments) THEN arguments[i].val
                                       ELSE GarbageValue])
     ELSE IF \E i \in 1..arity : ~AnyCastOk(holder.Args[i], arguments[i])
       THEN { Outcome("bad_any_cast", "", <<>>, <<>>, holder) }
     ELSE CallDoWork(holder, [i \in 1..arity |-> AnyCast(holder.Args[i], arguments[i])])

Prefixed(prefix, o) == [o EXCEPT !.out = prefix \o @]

\* PersonHolder::invoke_work: assert on the size, the marker, the call.
InvokeWorkForgetting(holder, arguments) ==
  IF (~ndebug) /\ Len(arguments) # Len(holder.Args)
    THEN { Outcome("abort", "", <<>>, <<>>, holder) }
  ELSE { IF o.result = "bad_any_cast"
           THEN [Prefixed(<<WorkingOn>>, o) EXCEPT !.holder.Args = <<>>]
           ELSE Prefixed(<<WorkingOn>>, o)
         : o \in invoke_work_impl(holder, arguments) }
invoke_work(holder, arguments) ==
  IF (~ndebug) /\ Len(arguments) # Len(holder.Args)
    THEN { Outcome("abort", "", <<>>, <<>>, holder) }
  ELSE { Prefixed(<<WorkingOn>>, o) : o \in invoke_work_impl(holder, arguments) }

\* AnyPerson::work: collect the arguments, hand them to the holder.
AnyPersonWork(holder, args) == invoke_work(holder, collect_any_vector(args))

\* Office::work: std::cout << m_person.name() << " is "; m_person.work(...).
OfficePrefixAfter(name) == << " is ", name >>
OfficePrefix(name) == << name, " is " >>

OfficeWorkOutcomes(holder, args) ==
  UNION { IF n.result # "ok" THEN { n }
          ELSE { [Prefixed(OfficePrefix(n.ret), o) EXCEPT !.ret = n.ret] :
                   o \in AnyPersonWork(holder, args) }
        : n \in PersonHolderName(holder) }

\* ------------------------------------------------------------ the calls
\* The caller's previous statement was a call on a that threw
\* std::bad_any_cast, and this call passes arguments that fit (kept for the
\* properties only).
Retry(a, args) == last.a = a /\ Matches(heap[HolderOf(a)].Args, args)

Record(op, a, args, o) ==
  [op |-> op, a |-> a, args |-> args, result |-> o.result, ret |-> o.ret,
   out |-> o.out, invoked |-> o.invoked, retry |-> Retry(a, args)]

\* AnyPerson::name() on an AnyPerson that holds a PersonHolder.
Name(a) ==
  /\ Idle
  /\ Holds(a)
  /\ \E o \in PersonHolderName(heap[HolderOf(a)]) :
       /\ last' = Record("name", a, <<>>, o)
       /\ heap' = [heap EXCEPT ![HolderOf(a)] = o.holder]
  /\ UNCHANGED << ndebug, persons, anyPerson >>

\* AnyPerson::work(arguments...) called directly.
Work(a, args) ==
  /\ Idle
  /\ Holds(a)
  /\ ~anyPerson[a].inOffice
  /\ \E o \in AnyPersonWork(heap[HolderOf(a)], args) :
       /\ last' = Record("work", a, args, o)
       /\ heap' = [heap EXCEPT ![HolderOf(a)] = o.holder]
  /\ UNCHANGED << ndebug, persons, anyPerson >>

\* Office::work(args...).
OfficeWork(a, args) ==
  /\ Idle
  /\ Holds(a)
  /\ anyPerson[a].inOffice
  /\ \E o \in OfficeWorkOutcomes(heap[HolderOf(a)], args) :
       /\ last' = Record("officeWork", a, args, o)
       /\ heap' = [heap EXCEPT ![HolderOf(a)] = o.holder]
  /\ UNCHANGED << ndebug, persons, anyPerson >>

\* A call that returned or threw has been dealt with by the caller, which
\* goes on to its next statement.  After abort() or a crash nothing follows.
Continue ==
  /\ last.op # "none"
  /\ last.result \in {"ok", "bad_any_cast"}
  /\ last' = IF last.result = "bad_any_cast" THEN [NoCall EXCEPT !.a = last.a] ELSE NoCall
  /\ UNCHANGED << ndebug, persons, anyPerson, heap >>

Next ==
  \/ \E p \in PersonIds : DeclarePerson(p)
  \/ \E p \in PersonIds : DestroyPerson(p)
  \/ \E a \in AnyPersonIds, w \in Workers : ConstructFromRvalue(a, w.kind, w.name)
  \/ \E a \in AnyPersonIds, p \in PersonIds : ConstructFromLvalue(a, p)
  \/ \E dst, src \in AnyPersonIds : MoveConstruct(dst, src)
  \/ \E dst, src \in AnyPersonIds : Office(dst, src)
  \/ \E dst \in AnyPersonIds, w \in Workers : OfficeFromRvalue(dst, w.kind, w.name)
  \/ \E dst \in AnyPersonIds, p \in PersonIds : OfficeFromLvalue(dst, p)
  \/ \E a \in AnyPersonIds : DestroyAnyPerson(a)
  \/ \E a \in AnyPersonIds : Name(a)
  \/ \E a \in AnyPersonIds, args \in ArgLists : Work(a, args)
  \/ \E a \in AnyPersonIds, args \in ArgLists : OfficeWork(a, args)
  \/ Continue

Spec == Init /\ [][Next]_vars

\* ------------------------------------------------------------ properties
\* The call the caller has just made, and the holder it was made on.
Called == last.op \in {"work", "officeWork"}
LastHolder == heap[HolderOf(last.a)]
LastAlive == HeldAlive(HolderOf(last.a))
Fits == Matches(LastHolder.Args, last.args)
ArgValues == [i \in 1..Len(last.args) |-> last.args[i].val]
\* What AnyPerson::work wrote: all of the output, or what follows the two
\* items Office::work writes itself.
WorkOutput == IF last.op = "officeWork" THEN SubSeq(last.out, 3, Len(last.out)) ELSE last.out
\* The name of the worker a holder's m_person denotes.
HeldName(holder) == IF holder.isRef THEN persons[holder.target].name ELSE holder.m_person

\* C1: a work call whose arguments fit the held worker's do_work (the worker
\* being within its lifetime) returns normally, writes the "working on "
\* marker once and then exactly what do_work called directly on the same
\* arguments writes, and calls do_work once with the i-th argument as its i-th
\* parameter.
C1_WorkEqualsDirectCall ==
  (Called /\ Fits /\ LastAlive) =>
    /\ last.result = "ok"
    /\ last.invoked = << ArgValues >>
    /\ WorkOutput = << WorkingOn >> \o DoWork(LastHolder.P, ArgValues)
    /\ Cardinality({ i \in 1..Len(WorkOutput) : WorkOutput[i] = WorkingOn }) = 1

C1_Witness ==
  /\ last.op = "work"
  /\ Fits
  /\ last.result = "ok"
  /\ Len(last.args) = MaxArity
  /\ last.invoked = << ArgValues >>

\* C2: a work call whose number of arguments differs from the arity of the
\* held worker's do_work ends in the fatal assertion failure, and do_work is
\* not called.
C2_ArityMismatchFailsFast ==
  (Called /\ LastAlive /\ Len(last.args) # Len(LastHolder.Args)) =>
    (last.result = "abort" /\ last.invoked = <<>>)

\* Some position of the argument list carries a type other than the one the
\* parameter at that position has (cv and reference qualifiers aside).
MismatchAt(i) == Decay(last.args[i].type) # RemoveCvref(LastHolder.Args[i])

\* C3: a work call with the right number of arguments of which one, at
\* whatever position, has another type than its parameter throws
\* std::bad_any_cast to the caller and does not call do_work.
C3_TypeMismatchThrows ==
  ( /\ Called
    /\ last.op = "officeWork" => LastAlive
    /\ Len(last.args) = Len(LastHolder.Args)
    /\ \E i \in 1..Len(last.args) : MismatchAt(i) ) =>
    (last.result = "bad_any_cast" /\ last.invoked = <<>>)

C3_Witness ==
  /\ last.op = "officeWork"
  /\ Len(last.args) = Len(LastHolder.Args)
  /\ ~MismatchAt(1)
  /\ MismatchAt(Len(last.args))
  /\ last.result = "bad_any_cast"
  /\ last.invoked = <<>>

\* C5: the worker a live PersonHolder works on is an object of its own, so it
\* is within its lifetime for as long as the holder is, whatever happens to
\* the object the AnyPerson was constructed from.
C5_HolderOwnsWorker ==
  \A h \in HolderIds : heap[h].state = "live" => (~heap[h].isRef /\ HeldAlive(h))

\* C6: name() returns the name the worker had when the AnyPerson was
\* constructed from it, also after moves and work calls.
C6_NamePassthrough ==
  last.op = "name" => (last.result = "ok" /\ last.ret = LastHolder.ctorName)

AliceLine ==
  << "Alice", " is ", "working on ", "recipe", " with ", "3", " ingredients: ",
     "flour", ", ", "eggs", ", ", "milk", "\n" >>
PeterLine ==
  << "Peter", " is ", "working on ", "keyboard", ", ", "monitor", ", and ", "coffee", "\n" >>

\* C7: an Office::work call that returns normally has written, in this order
\* and nothing else: the name name() returned (the worker's, when the worker is
\* within its lifetime), " is ", "working on ", and the output of the one
\* do_work call made; for Cook "Alice" and Programmer "Peter" with the
\* arguments of main() these are the two lines of the header comment.
C7_OfficeOutputOrder ==
  (last.op = "officeWork" /\ last.result = "ok") =>
    /\ Len(last.invoked) = 1
    /\ last.out = << last.ret, " is ", WorkingOn >> \o DoWork(LastHolder.P, last.invoked[1])
    /\ LastAlive => last.ret = HeldName(LastHolder)
    /\ (LastAlive /\ LastHolder.P = "Cook" /\ last.ret = "Alice" /\ last.args = MainCook)
         => last.out = AliceLine
    /\ (LastAlive /\ LastHolder.P = "Programmer" /\ last.ret = "Peter"
          /\ last.args = MainProgrammer) => last.out = PeterLine

C7_Witness ==
  /\ last.op = "officeWork"
  /\ last.result = "ok"
  /\ LastAlive
  /\ last.out = AliceLine

\* C8: no step changes the signature a live PersonHolder expects or the
\* worker it works on, and a call with fitting arguments made after a call on
\* the same AnyPerson has thrown std::bad_any_cast does what it does on a
\* fresh one.
C8_SignatureFixed ==
  [][ /\ \A h \in HolderIds :
           (heap[h].state = "live" /\ heap'[h].state = "live") =>
             /\ heap'[h].Args = heap[h].Args
             /\ heap'[h].Args = DoWorkSignature(heap'[h].P)
             /\ heap'[h].P = heap[h].P
             /\ heap'[h].isRef = heap[h].isRef
             /\ heap'[h].target = heap[h].target
             /\ heap'[h].m_person = heap[h].m_person
      /\ (Called /\ last.retry /\ LastAlive)' =>
           (/\ last.result = "ok"
            /\ last.invoked = << ArgValues >>
            /\ WorkOutput = << WorkingOn >> \o DoWork(LastHolder.P, ArgValues))'
    ]_vars

C8_Witness ==
  /\ Called
  /\ Fits
  /\ last.retry
  /\ last.result = "ok"
  /\ last.invoked = << ArgValues >>

\* C9: every live PersonHolder is held by exactly one AnyPerson, the worker it
\* works on is its own and no other holder's, a moved-from AnyPerson holds
\* none, and no holder is deleted twice.
C9_OwnershipTree ==
  /\ \A h \in HolderIds :
       heap[h].state = "live" =>
         /\ Cardinality({ a \in AnyPersonIds : Holds(a) /\ HolderOf(a) = h }) = 1
         /\ ~heap[h].isRef
  /\ \A g, h \in HolderIds :
       (g # h /\ heap[g].state = "live" /\ heap[h].state = "live"
          /\ heap[g].isRef /\ heap[h].isRef) => heap[g].target # heap[h].target
  /\ \A a \in AnyPersonIds : Holds(a) => heap[HolderOf(a)].state = "live"
  /\ \A h \in HolderIds : heap[h].deletes <= 1

\* C10: in a call the size check comes first, then the marker, then the
\* casts, then do_work: a call with the wrong number of arguments writes no
\* marker, a call that throws std::bad_any_cast has written the marker (and
\* Office::work the name and " is " before it), and neither calls do_work.
C10_StepOrder ==
  (Called /\ LastAlive) =>
    /\ Len(last.args) # Len(LastHolder.Args) =>
         (last.invoked = <<>> /\ \A i \in 1..Len(last.out) : last.out[i] # WorkingOn)
    /\ last.result = "bad_any_cast" =>
         (last.invoked = <<>> /\ WorkOutput = << WorkingOn >>
            /\ (last.op = "officeWork" => last.out = << last.ret, " is ", WorkingOn >>))
    /\ last.result = "ok" => WorkOutput[1] = WorkingOn

====
